---------------------------- MODULE Spec2Model ----------------------------
(***************************************************************************)
(* A model of the three programs of the repository:                        *)
(*   - process_audio (project/process_audio.py): one invocation, from the  *)
(*     creation of the speech client to the return value;                  *)
(*   - ListDeployMentConfig.Run (list_deployment_config.py): one run of    *)
(*     the command, from argument validation to the returned value;        *)
(*   - the generated SeclmV1 client (seclm_v1_client.py): one call of a    *)
(*     service method, from the lookup of its method config to its return. *)
(* Strings are sequences of one-character strings, so that strip, lower,   *)
(* split and concatenation are computed rather than assumed.               *)
(***************************************************************************)
EXTENDS Naturals, Sequences, FiniteSets

VARIABLES
    \* ---- process_audio ----
    pc,             \* position of the invocation in process_audio
    file,           \* what the file system holds at audio_file_path
    content,        \* the local `content`
    sent,           \* the recognize requests the service has received, in order
    response,       \* the local `response` (its .results)
    transcription,  \* the local `transcription`
    idx,            \* position of the for loop in response.results
    ret,            \* what the invocation returned
    exc,            \* the exception raised inside the try block, and where
    escaped,        \* TRUE when an exception left process_audio
    \* ---- ListDeployMentConfig.Run ----
    cli_pc,         \* position of the run
    args,           \* the parsed command line (args.model, args.hugging_face_model)
    validated,      \* ValidateModelGardenModelArgs returned
    parts,          \* the unpacked result of .lower().split('/')
    publisher_requests, \* the GetPublisherModel requests issued, in order
    publisher_model,    \* the local `publisher_model`
    cli_out,        \* how the run ended and with what
    \* ---- SeclmV1 ----
    rpc_pc,         \* position of the service method call
    rpc_call,       \* the call: service, method, request, global_params
    rpc_config,     \* the local `config`
    run_log,        \* the _RunMethod invocations, in order
    rpc_out         \* how the call ended and with what

audio_vars == <<pc, file, content, sent, response, transcription, idx, ret,
                exc, escaped>>
cli_vars == <<cli_pc, args, validated, parts, publisher_requests,
              publisher_model, cli_out>>
rpc_vars == <<rpc_pc, rpc_call, rpc_config, run_log, rpc_out>>
vars == <<audio_vars, cli_vars, rpc_vars>>

---------------------------------------------------------------------------
(* Bounds of the model.                                                    *)

MaxFileLen == 2
MaxResults == 2
MaxAlts == 2
MaxArgLen == 5

\* All sequences over S of length at most n.
SeqsUpTo(S, n) == UNION {[1..k -> S] : k \in 0..n}

---------------------------------------------------------------------------
(* Python string operations, computed on sequences of characters.          *)

\* str.strip() with no argument removes whitespace.
Whitespace == {" ", "\t", "\n", "\r"}

RECURSIVE LStrip(_)
LStrip(s) ==
    IF s # <<>> /\ Head(s) \in Whitespace THEN LStrip(Tail(s)) ELSE s

RECURSIVE RStrip(_)
RStrip(s) ==
    IF s # <<>> /\ s[Len(s)] \in Whitespace
    THEN RStrip(SubSeq(s, 1, Len(s) - 1))
    ELSE s

\* A slip: rstrip() in place of strip().
RStripOnly(s) == RStrip(s)

Strip(s) == LStrip(RStrip(s))

---------------------------------------------------------------------------
(* Values shared by the three programs.                                    *)

NotGiven == [given |-> FALSE, val |-> <<>>]
NoPublisherModel == [multiDeployVertex |-> "unset"]
Running == [kind |-> "running", val |-> "none"]
Returned(v) == [kind |-> "returned", val |-> v]
Raised(e) == [kind |-> "raised", val |-> e]

ApiMethodInfo(http, id, path, field, request_type, response_type) ==
    [http_method |-> http, method_id |-> id,
     relative_path |-> path, request_field |-> field,
     request_type_name |-> request_type,
     response_type_name |-> response_type]

NoConfig == ApiMethodInfo("", "", "", "", "", "")

---------------------------------------------------------------------------
(* process_audio                                                           *)

NoFile == [exists |-> FALSE, bytes |-> <<>>]
Bytes == {0, 255}
Files ==
    {NoFile} \cup {[exists |-> TRUE, bytes |-> b] : b \in SeqsUpTo(Bytes, MaxFileLen)}

\* The transcripts the service may put in an alternative.
Transcripts == { <<>>, <<" ", "a">>, <<"b", "\t">> }
Alternatives == [transcript : Transcripts]
Results == [alternatives : SeqsUpTo(Alternatives, MaxAlts)]
Responses == SeqsUpTo(Results, MaxResults)

NoException == [kind |-> "none", at |-> "none"]
NotReturned == [kind |-> "pending", val |-> <<>>]
None == [kind |-> "None", val |-> <<>>]
Str(s) == [kind |-> "str", val |-> s]

\* The classes `except Exception` catches, among those the calls of the try
\* block raise.
ExceptionClasses ==
    {"DefaultCredentialsError", "FileNotFoundError", "PermissionError",
     "OSError", "GoogleAPICallError", "IndexError"}

\* A slip: `except OSError` in place of `except Exception`.
OSErrorOnly(kind) == kind \in {"FileNotFoundError", "PermissionError", "OSError"}

HandlerCatches(kind) == kind \in ExceptionClasses

SampleRateHertz == 44100

RecognitionConfig ==
    [encoding |-> "LINEAR16",
     sample_rate_hertz |-> SampleRateHertz,
     language_code |-> "en-US",
     enable_automatic_punctuation |-> TRUE]

\* A slip: the last byte of the content is dropped.
RecognitionAudioTruncated(c) ==
    [content |-> IF c = <<>> THEN c ELSE SubSeq(c, 1, Len(c) - 1)]

RecognitionAudio(c) == [content |-> c]

\* A statement of the try block raises.
Raise(kind, at) ==
    /\ exc' = [kind |-> kind, at |-> at]
    /\ pc' = "except"

InitAudio ==
    /\ pc = "client"
    /\ file \in Files
    /\ content = <<>>
    /\ sent = <<>>
    /\ response = <<>>
    /\ transcription = <<>>
    /\ idx = 1
    /\ ret = NotReturned
    /\ exc = NoException
    /\ escaped = FALSE
    \* the other two programs are at rest
    /\ cli_pc = "done"
    /\ args = [model |-> NotGiven, hugging_face_model |-> NotGiven]
    /\ validated = FALSE /\ parts = <<>> /\ publisher_requests = <<>>
    /\ publisher_model = NoPublisherModel /\ cli_out = Running
    /\ rpc_pc = "done"
    /\ rpc_call = [service |-> "projects", method |-> "", request |-> "",
                   global_params |-> "None"]
    /\ rpc_config = NoConfig /\ run_log = <<>> /\ rpc_out = Running

\* client = speech_v1.SpeechClient()
CreateClient ==
    /\ pc = "client"
    /\ \/ pc' = "open" /\ UNCHANGED exc
       \/ Raise("DefaultCredentialsError", "client")
    /\ UNCHANGED <<file, content, sent, response, transcription, idx, ret, escaped>>
    /\ UNCHANGED <<cli_vars, rpc_vars>>

\* with open(audio_file_path, 'rb') as audio_file:
OpenFile ==
    /\ pc = "open"
    /\ \/ file.exists /\ pc' = "read" /\ UNCHANGED exc
       \/ ~file.exists /\ Raise("FileNotFoundError", "open")
       \/ file.exists /\ Raise("PermissionError", "open")
    /\ UNCHANGED <<file, content, sent, response, transcription, idx, ret, escaped>>
    /\ UNCHANGED <<cli_vars, rpc_vars>>

\* content = audio_file.read()
ReadFile ==
    /\ pc = "read"
    /\ \/ content' = file.bytes /\ pc' = "recognize" /\ UNCHANGED exc
       \/ Raise("OSError", "read") /\ UNCHANGED content
    /\ UNCHANGED <<file, sent, response, transcription, idx, ret, escaped>>
    /\ UNCHANGED <<cli_vars, rpc_vars>>

\* A slip: a failed recognize request is issued once more.
RecognizeRetrying ==
    /\ pc = "recognize"
    /\ sent' = Append(sent, [config |-> RecognitionConfig,
                             audio |-> RecognitionAudio(content)])
    /\ \/ \E r \in Responses : response' = r /\ pc' = "loop" /\ UNCHANGED exc
       \/ Len(sent) < 1 /\ UNCHANGED <<pc, response, exc>>
       \/ Len(sent) >= 1 /\ Raise("GoogleAPICallError", "recognize")
                         /\ UNCHANGED response
    /\ UNCHANGED <<file, content, transcription, idx, ret, escaped>>
    /\ UNCHANGED <<cli_vars, rpc_vars>>

\* audio = ...; config = ...; response = client.recognize(config=config, audio=audio)
Recognize ==
    /\ pc = "recognize"
    /\ sent' = Append(sent, [config |-> RecognitionConfig,
                             audio |-> RecognitionAudio(content)])
    /\ \/ \E r \in Responses : response' = r /\ pc' = "loop" /\ UNCHANGED exc
       \/ Raise("GoogleAPICallError", "recognize") /\ UNCHANGED response
    /\ UNCHANGED <<file, content, transcription, idx, ret, escaped>>
    /\ UNCHANGED <<cli_vars, rpc_vars>>

\* for result in response.results:
\*     transcription += result.alternatives[0].transcript + " "
LoopStep ==
    /\ pc = "loop"
    /\ idx <= Len(response)
    /\ LET result == response[idx] IN
         \/ /\ Len(result.alternatives) >= 1
            /\ transcription' =
                   transcription \o result.alternatives[1].transcript \o <<" ">>
            /\ idx' = idx + 1
            /\ UNCHANGED <<pc, exc>>
         \/ /\ Len(result.alternatives) = 0
            /\ Raise("IndexError", "extract")
            /\ UNCHANGED <<transcription, idx>>
    /\ UNCHANGED <<file, content, sent, response, ret, escaped>>
    /\ UNCHANGED <<cli_vars, rpc_vars>>

\* return transcription.strip()
ReturnTranscription ==
    /\ pc = "loop"
    /\ idx > Len(response)
    /\ ret' = Str(Strip(transcription))
    /\ pc' = "done"
    /\ UNCHANGED <<file, content, sent, response, transcription, idx, exc, escaped>>
    /\ UNCHANGED <<cli_vars, rpc_vars>>

\* except Exception as e: print(...); return None
ExceptHandler ==
    /\ pc = "except"
    /\ IF HandlerCatches(exc.kind)
       THEN ret' = None /\ UNCHANGED escaped
       ELSE escaped' = TRUE /\ UNCHANGED ret
    /\ pc' = "done"
    /\ UNCHANGED <<file, content, sent, response, transcription, idx, exc>>
    /\ UNCHANGED <<cli_vars, rpc_vars>>

NextAudio ==
    \/ CreateClient
    \/ OpenFile
    \/ ReadFile
    \/ Recognize
    \/ LoopStep
    \/ ReturnTranscription
    \/ ExceptHandler

---------------------------------------------------------------------------
(* ListDeployMentConfig.Run                                                *)

ArgChars == {"G", "m", "/"}

\* str.lower() on the characters of the model.
LowerChar(c) == IF c = "G" THEN "g" ELSE c
Lower(s) == [i \in 1..Len(s) |-> LowerChar(s[i])]

\* str.split(sep): the fields between the separators, empty ones kept.
RECURSIVE Split(_, _)
Split(s, sep) ==
    IF s = <<>> THEN << <<>> >>
    ELSE LET rest == Split(Tail(s), sep) IN
         IF Head(s) = sep
         THEN << <<>> >> \o rest
         ELSE << <<Head(s)>> \o rest[1] >> \o Tail(rest)

Given(s) == [given |-> TRUE, val |-> s]
ArgStrings == SeqsUpTo(ArgChars, MaxArgLen)

\* Args: the two flags form a required, mutually exclusive group.
ArgsSet ==
    {[model |-> Given(s), hugging_face_model |-> NotGiven] : s \in ArgStrings}
    \cup
    {[model |-> NotGiven, hugging_face_model |-> Given(s)] : s \in ArgStrings}

PublisherModels ==
    {[multiDeployVertex |-> v] : v \in {"absent", "n1-standard-8", "a2-highgpu-1g"}}


\* f'publishers/{publisher_name}/models/{model_name}', is_hugging_face_model=True
HuggingFaceRequest(p) ==
    [model_name |-> <<"publishers/">> \o p[1] \o <<"/models/">> \o p[2],
     is_hugging_face_model |-> "True"]

\* f'publishers/{publisher_name}/models/{model_name}@{model_version_name}'
ModelRequest(p) ==
    [model_name |->
         <<"publishers/">> \o p[1] \o <<"/models/">> \o p[2] \o <<"@">> \o p[3],
     is_hugging_face_model |-> "default"]

InitCli ==
    /\ cli_pc = "validate"
    /\ args \in ArgsSet
    /\ validated = FALSE
    /\ parts = <<>>
    /\ publisher_requests = <<>>
    /\ publisher_model = NoPublisherModel
    /\ cli_out = Running
    \* the other two programs are at rest
    /\ pc = "done" /\ file = NoFile /\ content = <<>> /\ sent = <<>>
    /\ response = <<>> /\ transcription = <<>> /\ idx = 1
    /\ ret = NotReturned /\ exc = NoException /\ escaped = FALSE
    /\ rpc_pc = "done"
    /\ rpc_call = [service |-> "projects", method |-> "", request |-> "",
                   global_params |-> "None"]
    /\ rpc_config = NoConfig /\ run_log = <<>> /\ rpc_out = Running

\* validation.ValidateModelGardenModelArgs(args)
Validate ==
    /\ cli_pc = "validate"
    /\ \/ validated' = TRUE /\ cli_pc' = "parse" /\ UNCHANGED cli_out
       \/ /\ cli_out' = Raised("InvalidArgumentException")
          /\ cli_pc' = "done"
          /\ UNCHANGED validated
    /\ UNCHANGED <<args, parts, publisher_requests, publisher_model>>
    /\ UNCHANGED <<audio_vars, rpc_vars>>

\* publisher_name, model_name = args.hugging_face_model.lower().split('/')
ParseHuggingFaceModel ==
    /\ cli_pc = "parse"
    /\ args.hugging_face_model.given
    /\ LET fields == Split(Lower(args.hugging_face_model.val), "/") IN
         \/ Len(fields) = 2 /\ parts' = fields /\ cli_pc' = "get"
                            /\ UNCHANGED cli_out
         \/ Len(fields) # 2 /\ cli_out' = Raised("ValueError")
                            /\ cli_pc' = "done" /\ UNCHANGED parts
    /\ UNCHANGED <<args, validated, publisher_requests, publisher_model>>
    /\ UNCHANGED <<audio_vars, rpc_vars>>

\* publisher_name, model_name, model_version_name = args.model.lower().split('/')
ParseModel ==
    /\ cli_pc = "parse"
    /\ ~args.hugging_face_model.given
    /\ LET fields == Split(Lower(args.model.val), "/") IN
         \/ Len(fields) = 3 /\ parts' = fields /\ cli_pc' = "get"
                            /\ UNCHANGED cli_out
         \/ Len(fields) # 3 /\ cli_out' = Raised("ValueError")
                            /\ cli_pc' = "done" /\ UNCHANGED parts
    /\ UNCHANGED <<args, validated, publisher_requests, publisher_model>>
    /\ UNCHANGED <<audio_vars, rpc_vars>>

\* The request of the branch taken.
PublisherModelRequest ==
    IF args.hugging_face_model.given
    THEN HuggingFaceRequest(parts)
    ELSE ModelRequest(parts)

\* A slip: the request is issued twice.
GetPublisherModelTwice ==
    /\ cli_pc = "get"
    /\ publisher_requests' =
           publisher_requests \o <<PublisherModelRequest, PublisherModelRequest>>
    /\ \/ \E m \in PublisherModels :
             publisher_model' = m /\ cli_pc' = "extract" /\ UNCHANGED cli_out
       \/ /\ cli_out' = Raised("HttpError")
          /\ cli_pc' = "done"
          /\ UNCHANGED publisher_model
    /\ UNCHANGED <<args, validated, parts>>
    /\ UNCHANGED <<audio_vars, rpc_vars>>

\* publisher_model = mg_client.GetPublisherModel(...)
GetPublisherModel ==
    /\ cli_pc = "get"
    /\ publisher_requests' = Append(publisher_requests, PublisherModelRequest)
    /\ \/ \E m \in PublisherModels :
             publisher_model' = m /\ cli_pc' = "extract" /\ UNCHANGED cli_out
       \/ /\ cli_out' = Raised("HttpError")
          /\ cli_pc' = "done"
          /\ UNCHANGED publisher_model
    /\ UNCHANGED <<args, validated, parts>>
    /\ UNCHANGED <<audio_vars, rpc_vars>>

\* multi_deploy = publisher_model.supportedActions.multiDeployVertex.multiDeployVertex
\* except AttributeError: raise core_exceptions.Error(...)
ExtractMultiDeploy ==
    /\ cli_pc = "extract"
    /\ \/ /\ publisher_model.multiDeployVertex # "absent"
          /\ cli_out' = Returned(publisher_model.multiDeployVertex)
       \/ /\ publisher_model.multiDeployVertex = "absent"
          /\ cli_out' = Raised("core_exceptions.Error")
    /\ cli_pc' = "done"
    /\ UNCHANGED <<args, validated, parts, publisher_requests, publisher_model>>
    /\ UNCHANGED <<audio_vars, rpc_vars>>

NextCli ==
    \/ Validate
    \/ ParseHuggingFaceModel
    \/ ParseModel
    \/ GetPublisherModel
    \/ ExtractMultiDeploy

---------------------------------------------------------------------------
(* SeclmV1                                                                 *)

Operations == "projects_locations_operations"
Workbenches == "projects_locations_workbenches"
Locations == "projects_locations"
Projects == "projects"

\* The methods each service class defines.
ServiceMethods(service) ==
    CASE service = Operations -> {"Cancel", "Delete", "Get", "List"}
      [] service = Workbenches ->
             {"Create", "Delete", "Get", "List", "Patch", "Query"}
      [] service = Locations -> {"Get", "List"}
      [] OTHER -> {}

Services == {Operations, Workbenches, Locations, Projects}

LocalMethods == UNION {{<<s, m>> : m \in ServiceMethods(s)} : s \in Services}

\* <Method>.method_config of each service class.
MethodConfig(service, name) ==
    CASE service = Operations /\ name = "Cancel" ->
           ApiMethodInfo("POST", "seclm.projects.locations.operations.cancel",
               "v1/{+name}:cancel", "cancelOperationRequest",
               "SeclmProjectsLocationsOperationsCancelRequest", "Empty")
      [] service = Operations /\ name = "Delete" ->
           ApiMethodInfo("DELETE", "seclm.projects.locations.operations.delete",
               "v1/{+name}", "",
               "SeclmProjectsLocationsOperationsDeleteRequest", "Empty")
      [] service = Operations /\ name = "Get" ->
           ApiMethodInfo("GET", "seclm.projects.locations.operations.get",
               "v1/{+name}", "",
               "SeclmProjectsLocationsOperationsGetRequest", "Operation")
      [] service = Operations /\ name = "List" ->
           ApiMethodInfo("GET", "seclm.projects.locations.operations.list",
               "v1/{+name}/operations", "",
               "SeclmProjectsLocationsOperationsListRequest",
               "ListOperationsResponse")
      [] service = Workbenches /\ name = "Create" ->
           ApiMethodInfo("POST", "seclm.projects.locations.workbenches.create",
               "v1/{+parent}/workbenches", "workbench",
               "SeclmProjectsLocationsWorkbenchesCreateRequest", "Operation")
      [] service = Workbenches /\ name = "Delete" ->
           ApiMethodInfo("DELETE", "seclm.projects.locations.workbenches.delete",
               "v1/{+name}", "",
               "SeclmProjectsLocationsWorkbenchesDeleteRequest", "Operation")
      [] service = Workbenches /\ name = "Get" ->
           ApiMethodInfo("GET", "seclm.projects.locations.workbenches.get",
               "v1/{+name}", "",
               "SeclmProjectsLocationsWorkbenchesGetRequest", "Workbench")
      [] service = Workbenches /\ name = "List" ->
           ApiMethodInfo("GET", "seclm.projects.locations.workbenches.list",
               "v1/{+parent}/workbenches", "",
               "SeclmProjectsLocationsWorkbenchesListRequest",
               "ListWorkbenchesResponse")
      [] service = Workbenches /\ name = "Patch" ->
           ApiMethodInfo("PATCH", "seclm.projects.locations.workbenches.patch",
               "v1/{+name}", "workbench",
               "SeclmProjectsLocationsWorkbenchesPatchRequest", "Operation")
      [] service = Workbenches /\ name = "Query" ->
           ApiMethodInfo("POST", "seclm.projects.locations.workbenches.query",
               "v1/{+name}:query", "workbenchQueryRequest",
               "SeclmProjectsLocationsWorkbenchesQueryRequest",
               "WorkbenchQueryResponse")
      [] service = Locations /\ name = "Get" ->
           ApiMethodInfo("GET", "seclm.projects.locations.get",
               "v1/{+name}", "",
               "SeclmProjectsLocationsGetRequest", "Location")
      [] service = Locations /\ name = "List" ->
           ApiMethodInfo("GET", "seclm.projects.locations.list",
               "v1/{+name}/locations", "",
               "SeclmProjectsLocationsListRequest", "ListLocationsResponse")
      [] OTHER -> NoConfig

\* A copy-and-paste slip of the generator: Patch looks up Create's config.
ConfigNamePatchAsCreate(service, method) ==
    IF service = Workbenches /\ method = "Patch" THEN "Create" ELSE method

\* The name each method passes to self.GetMethodConfig.
ConfigName(service, method) ==
    CASE service = Operations /\ method = "Cancel" -> "Cancel"
      [] service = Operations /\ method = "Delete" -> "Delete"
      [] service = Operations /\ method = "Get" -> "Get"
      [] service = Operations /\ method = "List" -> "List"
      [] service = Workbenches /\ method = "Create" -> "Create"
      [] service = Workbenches /\ method = "Delete" -> "Delete"
      [] service = Workbenches /\ method = "Get" -> "Get"
      [] service = Workbenches /\ method = "List" -> "List"
      [] service = Workbenches /\ method = "Patch" -> "Patch"
      [] service = Workbenches /\ method = "Query" -> "Query"
      [] service = Locations /\ method = "Get" -> "Get"
      [] service = Locations /\ method = "List" -> "List"

RpcRequests == {"request1", "request2"}
GlobalParams == {"None", "params1", "params2"}
RpcResponses == {"response1", "response2"}

RpcCalls ==
    {[service |-> sm[1], method |-> sm[2], request |-> r, global_params |-> g] :
         sm \in LocalMethods, r \in RpcRequests, g \in GlobalParams}

InitClient ==
    /\ rpc_pc = "lookup"
    /\ rpc_call \in RpcCalls
    /\ rpc_config = NoConfig
    /\ run_log = <<>>
    /\ rpc_out = Running
    \* the other two programs are at rest
    /\ pc = "done" /\ file = NoFile /\ content = <<>> /\ sent = <<>>
    /\ response = <<>> /\ transcription = <<>> /\ idx = 1
    /\ ret = NotReturned /\ exc = NoException /\ escaped = FALSE
    /\ cli_pc = "done"
    /\ args = [model |-> NotGiven, hugging_face_model |-> NotGiven]
    /\ validated = FALSE /\ parts = <<>> /\ publisher_requests = <<>>
    /\ publisher_model = NoPublisherModel /\ cli_out = Running

\* config = self.GetMethodConfig('<Method>')
GetMethodConfig ==
    /\ rpc_pc = "lookup"
    /\ rpc_config' =
           MethodConfig(rpc_call.service,
                        ConfigName(rpc_call.service, rpc_call.method))
    /\ rpc_pc' = "run"
    /\ UNCHANGED <<rpc_call, run_log, rpc_out>>
    /\ UNCHANGED <<audio_vars, cli_vars>>

\* return self._RunMethod(config, request, global_params=global_params)
RunMethod ==
    /\ rpc_pc = "run"
    /\ \/ \E r \in RpcResponses : rpc_out' = Returned(r)
       \/ rpc_out' = Raised("HttpError")
    /\ run_log' = Append(run_log, [config |-> rpc_config,
                                   request |-> rpc_call.request,
                                   global_params |-> rpc_call.global_params,
                                   result |-> rpc_out'])
    /\ rpc_pc' = "done"
    /\ UNCHANGED <<rpc_call, rpc_config>>
    /\ UNCHANGED <<audio_vars, cli_vars>>

NextClient ==
    \/ GetMethodConfig
    \/ RunMethod

---------------------------------------------------------------------------
(* The specifications: each program runs on its own, the others at rest.   *)

SpecAudio == InitAudio /\ [][NextAudio]_vars
SpecCli == InitCli /\ [][NextCli]_vars
SpecClient == InitClient /\ [][NextClient]_vars

---------------------------------------------------------------------------
(* Properties of process_audio (checked under SpecAudio).                  *)

\* C1: no exception leaves process_audio; an invocation in which a statement
\* of the try block raised (creating the client, opening or reading the
\* file, the recognize call, indexing the alternatives of a result that has
\* none) returns None, and an invocation in which nothing raised returns a
\* string.
C1_NoExceptionEscapes ==
    /\ ~escaped
    /\ pc = "done" =>
         /\ exc # NoException => ret = None
         /\ exc = NoException => ret.kind = "str"

\* An invocation ended after result.alternatives[0] raised IndexError.
C1_Witness ==
    /\ pc = "done"
    /\ exc = [kind |-> "IndexError", at |-> "extract"]
    /\ ret = None

\* C2: an invocation issues at most one recognize request, and one whose
\* request failed ends with None having issued exactly that one.
C2_NoRetry ==
    /\ Len(sent) <= 1
    /\ pc = "done" /\ exc.at = "recognize" => Len(sent) = 1 /\ ret = None

\* An invocation ended after its recognize request failed.
C2_Witness ==
    /\ pc = "done"
    /\ exc.at = "recognize"
    /\ Len(sent) = 1
    /\ ret = None

\* The first alternative's transcript of every result, in response order.
FirstTranscripts(results) ==
    [i \in 1..Len(results) |-> results[i].alternatives[1].transcript]

\* The strings of a sequence joined by a separator.
RECURSIVE JoinWith(_, _)
JoinWith(strings, sep) ==
    IF strings = <<>> THEN <<>>
    ELSE IF Len(strings) = 1 THEN strings[1]
    ELSE strings[1] \o sep \o JoinWith(Tail(strings), sep)

\* A string without its leading and trailing whitespace: what lies between
\* its first and its last character that is not whitespace.
Trimmed(s) ==
    LET solid == {i \in 1..Len(s) : s[i] \notin Whitespace} IN
    IF solid = {} THEN <<>>
    ELSE SubSeq(s, CHOOSE i \in solid : \A j \in solid : i <= j,
                   CHOOSE i \in solid : \A j \in solid : i >= j)

\* C3: an invocation in which nothing raised returns the first alternatives'
\* transcripts of the results, in response order, joined by one space, with
\* the leading and trailing whitespace of the whole removed; a response with
\* no results gives the empty string.
C3_TranscriptionJoined ==
    pc = "done" /\ exc = NoException =>
        /\ ret = Str(Trimmed(JoinWith(FirstTranscripts(response), <<" ">>)))
        /\ response = <<>> => ret = Str(<<>>)

\* An invocation returned the transcription of two results, the first of
\* which had a second alternative that differs from its first.
C3_Witness ==
    /\ pc = "done"
    /\ exc = NoException
    /\ Len(response) = 2
    /\ Len(response[1].alternatives) = 2
    /\ response[1].alternatives[1] # response[1].alternatives[2]
    /\ response[1].alternatives[1] # response[2].alternatives[1]
    /\ ret.kind = "str"

\* C4: every recognize request carries exactly the bytes read from the file,
\* which are the bytes of the file, in one request, with the fixed config
\* (LINEAR16, 44100 Hz, en-US, automatic punctuation on).
C4_PassThrough ==
    /\ Len(sent) <= 1
    /\ \A i \in 1..Len(sent) :
         /\ sent[i].audio.content = content
         /\ content = file.bytes
         /\ sent[i].config = [encoding |-> "LINEAR16",
                              sample_rate_hertz |-> 44100,
                              language_code |-> "en-US",
                              enable_automatic_punctuation |-> TRUE]

\* A request was issued for a file of two different bytes.
C4_Witness ==
    /\ Len(sent) = 1
    /\ file.bytes = <<0, 255>>
    /\ sent[1].audio.content = <<0, 255>>

---------------------------------------------------------------------------
(* Properties of ListDeployMentConfig.Run (checked under SpecCli).         *)

\* The number of separators in a string.
CountSep(s, sep) == Cardinality({i \in 1..Len(s) : s[i] = sep})

\* The identifier given has the number of fields its flag asks for.
IdentifierParses ==
    IF args.hugging_face_model.given
    THEN CountSep(args.hugging_face_model.val, "/") = 1
    ELSE CountSep(args.model.val, "/") = 2

\* C5: a run never issues more than one GetPublisherModel request, and a
\* finished run has issued exactly one if validation and the parsing of the
\* identifier succeeded (for either flag), and none otherwise.
C5_SingleApiCall ==
    /\ Len(publisher_requests) <= 1
    /\ cli_pc = "done" =>
         IF validated /\ IdentifierParses
         THEN Len(publisher_requests) = 1
         ELSE Len(publisher_requests) = 0

\* A run given --hugging-face-model (with an upper-case letter) returned
\* after its one request.
C5_Witness ==
    /\ cli_pc = "done"
    /\ args.hugging_face_model.given
    /\ \E i \in 1..Len(args.hugging_face_model.val) :
           args.hugging_face_model.val[i] = "G"
    /\ cli_out.kind = "returned"
    /\ Len(publisher_requests) = 1
    /\ publisher_requests[1].is_hugging_face_model = "True"

---------------------------------------------------------------------------
(* Properties of SeclmV1 (checked under SpecClient).                       *)

\* The method config a local method resolves to.
Resolved(sm) == MethodConfig(sm[1], ConfigName(sm[1], sm[2]))

\* C6: a call of a service method runs _RunMethod exactly once, with the
\* config registered under the method's own name and the caller's request
\* and global_params, and ends as _RunMethod ended; no two local methods
\* resolve to the same method_id.
C6_OneToOne ==
    /\ Len(run_log) <= 1
    /\ rpc_pc = "done" =>
         /\ Len(run_log) = 1
         /\ run_log[1].config = MethodConfig(rpc_call.service, rpc_call.method)
         /\ run_log[1].config # NoConfig
         /\ run_log[1].request = rpc_call.request
         /\ run_log[1].global_params = rpc_call.global_params
         /\ rpc_out = run_log[1].result
    /\ \A a \in LocalMethods : \A b \in LocalMethods :
         a # b => Resolved(a).method_id # Resolved(b).method_id

\* A Patch call on a workbench, with global parameters, returned.
C6_Witness ==
    /\ rpc_pc = "done"
    /\ rpc_call.service = Workbenches
    /\ rpc_call.method = "Patch"
    /\ rpc_call.global_params = "params1"
    /\ rpc_out.kind = "returned"
    /\ Len(run_log) = 1

=============================================================================
